---- MODULE Spec2Model ----
(***************************************************************************)
(* grmpy workflow (paragraph): two pooled phases, "align" then "genotype", *)
(* over samples x graph specs, sharing one mutex, per-sample graph         *)
(* cursors, one genotyping cursor, a termination flag and a combined       *)
(* output stream.                                                          *)
(*                                                                         *)
(* Iterators are modelled as 0-based offsets into their container, so      *)
(* begin() = 0 and end() = size.  GraphIndex is 0-based as in the source;  *)
(* TLA+ sequences are 1-based, so the row of GraphIndex g is               *)
(* alignedSamples_[g + 1].  Samples are named by their manifest position.  *)
(*                                                                         *)
(* common/Threads.hh (CPU_THREADS, ASYNC_BLOCK_WITH_CLEANUP, unlock_guard) *)
(* and common/Program.hh (common::run) are not part of the sources at      *)
(* hand; execute_joined, asyncBlockFailure and completionStatus model them *)
(* from the specification text.  The BamReader construction, logging and   *)
(* gzip filtering have no effect on the modelled state and are left out.   *)
(***************************************************************************)
EXTENDS Integers, Sequences, FiniteSets, TLC

\* Bounds of the model
MaxSamples == 3
MaxGraphs == 2
MaxThreads == 3

VARIABLES
    driver,              \* position of main / Workflow::run
    threads,             \* parameters_.threads()
    graphSpecPaths_,     \* sequence of graph spec paths
    manifest_,           \* sequence of alignment payloads: "null" or "pre"
    outputFilePath_,     \* "" or non-empty
    outputFolderPath_,   \* "" or non-empty
    unalignedSamples_,   \* per sample: unprocessedGraphs_ iterator
    alignedSamples_,     \* rows of [sample, data]
    ungenotypedSamples,  \* iterator into alignedSamples_ (local of run)
    terminate_,
    firstPrinted_,
    fos,                 \* what has been written to the combined stream
    mutex_,              \* <<pool, worker>> of the holder, or <<>>
    apc, ai, ag, ares,   \* alignSamples workers: position, i, ourGraph, call outcome
    gpc, gg, gres,       \* genotypeGraphs workers: position, ourGraphSamples, call outcome
    alignCalls,          \* history: alignSingleSample invocations per <<sample, graph index>>
    genoCalls,           \* history: countAndGenotype invocations per row
    readRows,            \* history: the row contents each countAndGenotype call was handed
    failures,            \* history: number of collaborator calls that failed
    everSet,             \* history: terminate_ has been true at some point
    alignClaims,         \* history: the <<sample, graph index>> pairs in the order they were claimed
    genoClaims,          \* history: the rows in the order they were claimed
    status               \* completion status of the process, -1 while running

vars == <<driver, threads, graphSpecPaths_, manifest_, outputFilePath_, outputFolderPath_,
          unalignedSamples_, alignedSamples_, ungenotypedSamples, terminate_, firstPrinted_,
          fos, mutex_, apc, ai, ag, ares, gpc, gg, gres,
          alignCalls, genoCalls, readRows, failures, everSet, alignClaims, genoClaims, status>>

config == <<threads, graphSpecPaths_, manifest_>>
tables == <<unalignedSamples_, alignedSamples_>>
alignWorkers == <<apc, ai, ag, ares>>
genoWorkers == <<gpc, gg, gres>>
history == <<alignCalls, genoCalls, readRows, failures, everSet>>
claimed == <<alignClaims, genoClaims>>

Workers == 1..MaxThreads
Payloads == {"null", "pre"}
Free == <<>>

NumGraphs == Len(graphSpecPaths_)
NumSamples == Len(manifest_)
NumRows == Len(alignedSamples_)

\* Stream items
LBracket == [kind |-> "[", graph |-> -1]
RBracket == [kind |-> "]", graph |-> -1]
Comma == [kind |-> ",", graph |-> -1]
Record(g) == [kind |-> "record", graph |-> g]

Max(a, b) == IF a >= b THEN a ELSE b

----
\* Options after command line parsing, before postProcess
Init ==
    /\ driver = "options"
    /\ threads \in 1..MaxThreads
    /\ graphSpecPaths_ \in {[i \in 1..n |-> i] : n \in 0..MaxGraphs}
    /\ manifest_ \in UNION {[1..n -> Payloads] : n \in 0..MaxSamples}
    /\ outputFilePath_ \in {"", "-"}
    /\ outputFolderPath_ \in {"", "dir"}
    /\ unalignedSamples_ = <<>>
    /\ alignedSamples_ = <<>>
    /\ ungenotypedSamples = 0
    /\ terminate_ = FALSE
    /\ firstPrinted_ = FALSE
    /\ fos = <<>>
    /\ mutex_ = Free
    /\ apc = [w \in Workers |-> "unborn"]
    /\ ai = [w \in Workers |-> 0]
    /\ ag = [w \in Workers |-> 0]
    /\ ares = [w \in Workers |-> "none"]
    /\ gpc = [w \in Workers |-> "unborn"]
    /\ gg = [w \in Workers |-> 0]
    /\ gres = [w \in Workers |-> "none"]
    /\ alignCalls = <<>>
    /\ genoCalls = <<>>
    /\ readRows = <<>>
    /\ failures = 0
    /\ everSet = FALSE
    /\ alignClaims = <<>>
    /\ genoClaims = <<>>
    /\ status = -1

----
\* Helpers translated from the source

\* Options::postProcess: the combined stream defaults to stdout
defaultOutputFilePath(file, folder) == IF file = "" /\ folder = "" THEN "-" ELSE file

\* Options::postProcess: manifest / graph-spec combinations that end in error()
manifestRejectedNoGraphsOnly(graphs, manifest) ==
    /\ Len(graphs) = 0
    /\ \E s \in 1..Len(manifest) : manifest[s] = "null"

manifestRejected(graphs, manifest) ==
    IF Len(graphs) = 0
    THEN \E s \in 1..Len(manifest) : manifest[s] = "null"
    ELSE IF 1 < Len(graphs)
         THEN \E s \in 1..Len(manifest) : manifest[s] # "null"
         ELSE FALSE

\* Workflow::Workflow: where a sample's unprocessedGraphs_ iterator starts
initialCursorPrealignedAtBegin(payload, graphs) == 0
initialCursor(payload, graphs) == IF payload = "null" THEN 0 ELSE Len(graphs)

\* one row per graph spec, none when there is no graph spec
initialRowsPerGraphOnly(graphs, manifest) ==
    [r \in 1..Len(graphs) |->
        [s \in 1..Len(manifest) |-> [sample |-> s, data |-> manifest[s]]]]

\* Workflow::Workflow: every row receives every manifest sample
initialRows(graphs, manifest) ==
    [r \in 1..Max(1, Len(graphs)) |->
        [s \in 1..Len(manifest) |-> [sample |-> s, data |-> manifest[s]]]]

\* Workflow::run: framing brackets are written for a combined stream of several graphs
needsFramingAnyGraph(file, graphs) == file # "" /\ 1 <= Len(graphs)
needsFraming(file, graphs) == file # "" /\ 1 < Len(graphs)

\* const_iterator ourGraph = input.unprocessedGraphs_++
alignClaimNoAdvance(cursor) == [ours |-> cursor, next |-> cursor]
alignClaim(cursor) == [ours |-> cursor, next |-> cursor + 1]

\* const_iterator ourGraphSamples = ungenotypedSamples++
genotypeClaimNoAdvance(cursor) == [ours |-> cursor, next |-> cursor]
genotypeClaim(cursor) == [ours |-> cursor, next |-> cursor + 1]

\* ourGraphIndex = std::distance(graphSpecPaths_.begin(), ourGraph)
ourGraphIndexOf(it) == it - 0

\* graphIndex = std::distance(alignedSamples_.cbegin(), ourGraphSamples)
graphIndexFromEnd(it) == NumRows - 1 - it
graphIndexOf(it) == it - 0

\* if (terminate_) at the head of the asynchronous block of alignSamples
alignTerminateObservedNever(flag) == FALSE
alignTerminateObserved(flag) == flag

\* if (terminate_) at the head of the asynchronous block of genotypeGraphs
genotypeTerminateObservedNever(flag) == FALSE
genotypeTerminateObserved(flag) == flag

\* [this](bool failure) { terminate_ |= failure; }
alignCleanupAssign(flag, failure) == failure
alignCleanup(flag, failure) == flag \/ failure

genotypeCleanupAssign(flag, failure) == failure
genotypeCleanup(flag, failure) == flag \/ failure

\* common::unlock_guard<std::mutex> unlock(mutex_) in alignSamples
alignUnlockMissing(holder) == holder
alignUnlock(holder) == Free

\* common::unlock_guard<std::mutex> unlock(mutex_) in genotypeGraphs
genotypeUnlockMissing(holder) == holder
genotypeUnlock(holder) == Free

\* std::lock_guard<std::mutex> lock(mutex_) going out of scope when alignSamples is left
alignLockGuardLeaked(holder) == holder
alignLockGuardRelease(holder) == Free

\* std::lock_guard<std::mutex> lock(mutex_) going out of scope when genotypeGraphs is left
genotypeLockGuardRelease(holder) == Free

\* genotypeGraphs: append to the combined stream
writeRecordNoSeparator(stream, first, rec) == Append(stream, rec)
writeRecordAtFront(stream, first, rec) ==
    <<rec>> \o (IF first THEN <<Comma>> ELSE <<>>) \o stream
writeRecord(stream, first, rec) ==
    Append(IF first THEN Append(stream, Comma) ELSE stream, rec)

\* ASYNC_BLOCK_WITH_CLEANUP hands the cleanup "true" when the block is left by a failure
asyncBlockFailure(outcome) == outcome = "fail"

\* CPU_THREADS(n).execute(f) returns once every worker it started has returned
execute_joined(pcs) == \A w \in DOMAIN pcs : pcs[w] \in {"unborn", "done"}

\* execute starts n workers
execute_spawn(n) == [w \in Workers |-> IF w <= n THEN "start" ELSE "unborn"]

\* completion status reported by the driver after the joins
completionStatus(flag) == IF flag THEN 1 ELSE 0

----
\* main: option post-processing, construction, Workflow::run

postProcess ==
    /\ driver = "options"
    /\ outputFilePath_' = defaultOutputFilePath(outputFilePath_, outputFolderPath_)
    /\ IF manifestRejected(graphSpecPaths_, manifest_)
       THEN driver' = "rejected" /\ status' = 1
       ELSE driver' = "validated" /\ status' = status
    /\ UNCHANGED <<config, outputFolderPath_, tables, ungenotypedSamples, terminate_,
                   firstPrinted_, fos, mutex_, alignWorkers, genoWorkers, history, claimed>>

Workflow_ctor ==
    /\ driver = "validated"
    /\ driver' = "constructed"
    /\ alignedSamples_' = initialRows(graphSpecPaths_, manifest_)
    /\ unalignedSamples_' =
          [s \in 1..NumSamples |-> initialCursor(manifest_[s], graphSpecPaths_)]
    /\ alignCalls' = [p \in (1..NumSamples) \X (0..(NumGraphs - 1)) |-> 0]
    /\ genoCalls' = [r \in 0..(Max(1, NumGraphs) - 1) |-> 0]
    /\ UNCHANGED <<config, outputFilePath_, outputFolderPath_, ungenotypedSamples, terminate_,
                   firstPrinted_, fos, mutex_, alignWorkers, genoWorkers, readRows, failures,
                   everSet, claimed, status>>

\* run up to the first execute: opening bracket, then the alignment pool is started
run_align ==
    /\ driver = "constructed"
    /\ driver' = "aligning"
    /\ fos' = IF needsFraming(outputFilePath_, graphSpecPaths_) THEN Append(fos, LBracket) ELSE fos
    /\ apc' = execute_spawn(threads)
    /\ UNCHANGED <<config, outputFilePath_, outputFolderPath_, tables, ungenotypedSamples,
                   terminate_, firstPrinted_, mutex_, ai, ag, ares, genoWorkers, history, claimed,
                   status>>

\* the first execute has joined: the genotyping cursor is set up and the second pool started
run_genotypeNoJoin ==
    /\ driver = "aligning"
    /\ driver' = "genotyping"
    /\ ungenotypedSamples' = 0
    /\ gpc' = execute_spawn(threads)
    /\ UNCHANGED <<config, outputFilePath_, outputFolderPath_, tables, terminate_, firstPrinted_,
                   fos, mutex_, alignWorkers, gg, gres, history, claimed, status>>

run_genotype ==
    /\ driver = "aligning"
    /\ execute_joined(apc)
    /\ driver' = "genotyping"
    /\ ungenotypedSamples' = 0
    /\ gpc' = execute_spawn(threads)
    /\ UNCHANGED <<config, outputFilePath_, outputFolderPath_, tables, terminate_, firstPrinted_,
                   fos, mutex_, alignWorkers, gg, gres, history, claimed, status>>

\* the second execute has joined: closing bracket, run returns, the process reports its status
run_finish ==
    /\ driver = "genotyping"
    /\ execute_joined(gpc)
    /\ driver' = "done"
    /\ fos' = IF needsFraming(outputFilePath_, graphSpecPaths_) THEN Append(fos, RBracket) ELSE fos
    /\ status' = completionStatus(terminate_)
    /\ UNCHANGED <<config, outputFilePath_, outputFolderPath_, tables, ungenotypedSamples,
                   terminate_, firstPrinted_, mutex_, alignWorkers, genoWorkers, history, claimed>>

----
\* Workflow::alignSamples, one worker of the first pool

Holds(pool, w) == mutex_ = <<pool, w>>

\* std::lock_guard at the head of alignSamples
alignSamples_lockNoWait(w) ==
    /\ driver = "aligning"
    /\ apc[w] = "start"
    /\ apc' = [apc EXCEPT ![w] = "for"]
    /\ ai' = [ai EXCEPT ![w] = 1]
    /\ UNCHANGED <<driver, config, outputFilePath_, outputFolderPath_, tables, ungenotypedSamples,
                   terminate_, firstPrinted_, fos, mutex_, ag, ares, genoWorkers, history, claimed,
                   status>>

alignSamples_lock(w) ==
    /\ driver = "aligning"
    /\ apc[w] = "start"
    /\ mutex_ = Free
    /\ mutex_' = <<"align", w>>
    /\ apc' = [apc EXCEPT ![w] = "for"]
    /\ ai' = [ai EXCEPT ![w] = 1]
    /\ UNCHANGED <<driver, config, outputFilePath_, outputFolderPath_, tables, ungenotypedSamples,
                   terminate_, firstPrinted_, fos, ag, ares, genoWorkers, history, claimed, status>>

\* one evaluation of the for / while heads and, if a graph is left, the claim and the
\* termination check, up to the point where the mutex is released for the aligner call
alignSamples_step(w) ==
    /\ apc[w] = "for"
    /\ Holds("align", w)
    /\ IF ai[w] > Len(unalignedSamples_)
       THEN \* the for loop is over, the worker returns and the lock_guard unlocks
            /\ apc' = [apc EXCEPT ![w] = "done"]
            /\ mutex_' = alignLockGuardRelease(mutex_)
            /\ UNCHANGED <<ai, ag, unalignedSamples_, terminate_, alignCalls, everSet, alignClaims>>
       ELSE IF unalignedSamples_[ai[w]] = NumGraphs
       THEN \* this sample has no unprocessed graph: next sample
            /\ ai' = [ai EXCEPT ![w] = @ + 1]
            /\ UNCHANGED <<apc, ag, mutex_, unalignedSamples_, terminate_, alignCalls, everSet,
                           alignClaims>>
       ELSE LET c == alignClaim(unalignedSamples_[ai[w]]) IN
            /\ unalignedSamples_' = [unalignedSamples_ EXCEPT ![ai[w]] = c.next]
            /\ ag' = [ag EXCEPT ![w] = c.ours]
            /\ alignClaims' = Append(alignClaims, <<ai[w], ourGraphIndexOf(c.ours)>>)
            /\ IF alignTerminateObserved(terminate_)
               THEN \* break leaves the while loop only; the block's cleanup runs with
                    \* failure = false and the for loop goes on to the next sample
                    /\ terminate_' = alignCleanup(terminate_, asyncBlockFailure("break"))
                    /\ everSet' = (everSet \/ terminate_')
                    /\ ai' = [ai EXCEPT ![w] = @ + 1]
                    /\ UNCHANGED <<apc, mutex_, alignCalls>>
               ELSE \* unlock_guard, then alignSingleSample is entered
                    /\ mutex_' = alignUnlock(mutex_)
                    /\ apc' = [apc EXCEPT ![w] = "call"]
                    /\ alignCalls' = [alignCalls EXCEPT ![<<ai[w], c.ours>>] = @ + 1]
                    /\ UNCHANGED <<ai, terminate_, everSet>>
    /\ UNCHANGED <<driver, config, outputFilePath_, outputFolderPath_, alignedSamples_,
                   ungenotypedSamples, firstPrinted_, fos, ares, genoWorkers, genoCalls, readRows,
                   failures, genoClaims, status>>

\* alignSingleSample returns, having written its slot of the table, or fails
alignSingleSample_returns(w) ==
    /\ apc[w] = "call"
    /\ \E outcome \in {"ok", "fail"} :
        /\ ares' = [ares EXCEPT ![w] = outcome]
        /\ alignedSamples_' =
              IF outcome = "ok"
              THEN [alignedSamples_ EXCEPT ![ourGraphIndexOf(ag[w]) + 1][ai[w]].data = "aligned"]
              ELSE alignedSamples_
        /\ failures' = IF outcome = "fail" THEN failures + 1 ELSE failures
    /\ apc' = [apc EXCEPT ![w] = "relock"]
    /\ UNCHANGED <<driver, config, outputFilePath_, outputFolderPath_, unalignedSamples_,
                   ungenotypedSamples, terminate_, firstPrinted_, fos, mutex_, ai, ag, genoWorkers,
                   alignCalls, genoCalls, readRows, everSet, claimed, status>>

\* the unlock_guard goes out of scope: the mutex is taken again
alignSamples_relock(w) ==
    /\ apc[w] = "relock"
    /\ mutex_ = Free
    /\ mutex_' = <<"align", w>>
    /\ apc' = [apc EXCEPT ![w] = "cleanup"]
    /\ UNCHANGED <<driver, config, outputFilePath_, outputFolderPath_, tables, ungenotypedSamples,
                   terminate_, firstPrinted_, fos, ai, ag, ares, genoWorkers, history, claimed,
                   status>>

\* the block's cleanup runs under the mutex; a failure then leaves alignSamples and the
\* lock_guard unlocks, otherwise the while loop goes on
alignSamples_cleanup(w) ==
    /\ apc[w] = "cleanup"
    /\ Holds("align", w)
    /\ terminate_' = alignCleanup(terminate_, asyncBlockFailure(ares[w]))
    /\ everSet' = (everSet \/ terminate_')
    /\ IF asyncBlockFailure(ares[w])
       THEN /\ apc' = [apc EXCEPT ![w] = "done"]
            /\ mutex_' = alignLockGuardRelease(mutex_)
       ELSE /\ apc' = [apc EXCEPT ![w] = "for"]
            /\ mutex_' = mutex_
    /\ ares' = [ares EXCEPT ![w] = "none"]
    /\ UNCHANGED <<driver, config, outputFilePath_, outputFolderPath_, tables, ungenotypedSamples,
                   firstPrinted_, fos, ai, ag, genoWorkers, alignCalls, genoCalls, readRows,
                   failures, claimed, status>>

----
\* Workflow::genotypeGraphs, one worker of the second pool

\* std::lock_guard at the head of genotypeGraphs
genotypeGraphs_lock(w) ==
    /\ driver \in {"aligning", "genotyping"}
    /\ gpc[w] = "start"
    /\ mutex_ = Free
    /\ mutex_' = <<"genotype", w>>
    /\ gpc' = [gpc EXCEPT ![w] = "while"]
    /\ UNCHANGED <<driver, config, outputFilePath_, outputFolderPath_, tables, ungenotypedSamples,
                   terminate_, firstPrinted_, fos, alignWorkers, gg, gres, history, claimed, status>>

\* the while head and, if a row is left, the claim and the termination check
genotypeGraphs_step(w) ==
    /\ gpc[w] = "while"
    /\ Holds("genotype", w)
    /\ IF ungenotypedSamples = NumRows
       THEN /\ gpc' = [gpc EXCEPT ![w] = "done"]
            /\ mutex_' = genotypeLockGuardRelease(mutex_)
            /\ UNCHANGED <<gg, ungenotypedSamples, terminate_, genoCalls, readRows, everSet,
                           genoClaims>>
       ELSE LET c == genotypeClaim(ungenotypedSamples) IN
            /\ ungenotypedSamples' = c.next
            /\ gg' = [gg EXCEPT ![w] = c.ours]
            /\ genoClaims' = Append(genoClaims, graphIndexOf(c.ours))
            /\ IF genotypeTerminateObserved(terminate_)
               THEN \* break leaves the while loop and the function, the lock_guard unlocks
                    /\ terminate_' = genotypeCleanup(terminate_, asyncBlockFailure("break"))
                    /\ everSet' = (everSet \/ terminate_')
                    /\ gpc' = [gpc EXCEPT ![w] = "done"]
                    /\ mutex_' = genotypeLockGuardRelease(mutex_)
                    /\ UNCHANGED <<genoCalls, readRows>>
               ELSE \* unlock_guard, then countAndGenotype is entered on *ourGraphSamples
                    /\ mutex_' = genotypeUnlock(mutex_)
                    /\ gpc' = [gpc EXCEPT ![w] = "call"]
                    /\ genoCalls' = [genoCalls EXCEPT ![c.ours] = @ + 1]
                    /\ readRows' = Append(readRows,
                          [row |-> c.ours,
                           path |-> IF NumGraphs = 0 THEN 0
                                    ELSE graphSpecPaths_[graphIndexOf(c.ours) + 1],
                           samples |-> alignedSamples_[c.ours + 1]])
                    /\ UNCHANGED <<terminate_, everSet>>
    /\ UNCHANGED <<driver, config, outputFilePath_, outputFolderPath_, tables, firstPrinted_, fos,
                   alignWorkers, gres, alignCalls, failures, alignClaims, status>>

\* countAndGenotype (and makeOutputFile for a folder sink) returns or fails
countAndGenotype_returns(w) ==
    /\ gpc[w] = "call"
    /\ \E outcome \in {"ok", "fail"} :
        /\ gres' = [gres EXCEPT ![w] = outcome]
        /\ failures' = IF outcome = "fail" THEN failures + 1 ELSE failures
    /\ gpc' = [gpc EXCEPT ![w] = "relock"]
    /\ UNCHANGED <<driver, config, outputFilePath_, outputFolderPath_, tables, ungenotypedSamples,
                   terminate_, firstPrinted_, fos, mutex_, alignWorkers, gg, alignCalls, genoCalls,
                   readRows, everSet, claimed, status>>

\* the unlock_guard goes out of scope: the mutex is taken again
genotypeGraphs_relock(w) ==
    /\ gpc[w] = "relock"
    /\ mutex_ = Free
    /\ mutex_' = <<"genotype", w>>
    /\ gpc' = [gpc EXCEPT ![w] = "cleanup"]
    /\ UNCHANGED <<driver, config, outputFilePath_, outputFolderPath_, tables, ungenotypedSamples,
                   terminate_, firstPrinted_, fos, alignWorkers, gg, gres, history, claimed, status>>

\* as genotypeGraphs_cleanup, with the output written whether or not the block failed
genotypeGraphs_cleanupWritesAlways(w) ==
    /\ gpc[w] = "cleanup"
    /\ Holds("genotype", w)
    /\ terminate_' = genotypeCleanup(terminate_, asyncBlockFailure(gres[w]))
    /\ everSet' = (everSet \/ terminate_')
    /\ IF asyncBlockFailure(gres[w])
       THEN /\ gpc' = [gpc EXCEPT ![w] = "done"]
            /\ mutex_' = genotypeLockGuardRelease(mutex_)
       ELSE /\ gpc' = [gpc EXCEPT ![w] = "while"]
            /\ mutex_' = mutex_
    /\ IF outputFilePath_ # ""
       THEN /\ fos' = writeRecord(fos, firstPrinted_, Record(graphIndexOf(gg[w])))
            /\ firstPrinted_' = TRUE
       ELSE UNCHANGED <<fos, firstPrinted_>>
    /\ gres' = [gres EXCEPT ![w] = "none"]
    /\ UNCHANGED <<driver, config, outputFilePath_, outputFolderPath_, tables, ungenotypedSamples,
                   alignWorkers, gg, alignCalls, genoCalls, readRows, failures, claimed, status>>

\* the block's cleanup runs under the mutex; a failure leaves genotypeGraphs, otherwise
\* the record is appended to the combined stream and the while loop goes on
genotypeGraphs_cleanup(w) ==
    /\ gpc[w] = "cleanup"
    /\ Holds("genotype", w)
    /\ terminate_' = genotypeCleanup(terminate_, asyncBlockFailure(gres[w]))
    /\ everSet' = (everSet \/ terminate_')
    /\ IF asyncBlockFailure(gres[w])
       THEN /\ gpc' = [gpc EXCEPT ![w] = "done"]
            /\ mutex_' = genotypeLockGuardRelease(mutex_)
            /\ UNCHANGED <<fos, firstPrinted_>>
       ELSE /\ gpc' = [gpc EXCEPT ![w] = "while"]
            /\ mutex_' = mutex_
            /\ IF outputFilePath_ # ""
               THEN /\ fos' = writeRecord(fos, firstPrinted_, Record(graphIndexOf(gg[w])))
                    /\ firstPrinted_' = TRUE
               ELSE UNCHANGED <<fos, firstPrinted_>>
    /\ gres' = [gres EXCEPT ![w] = "none"]
    /\ UNCHANGED <<driver, config, outputFilePath_, outputFolderPath_, tables, ungenotypedSamples,
                   alignWorkers, gg, alignCalls, genoCalls, readRows, failures, claimed, status>>

----
Next ==
    \/ postProcess
    \/ Workflow_ctor
    \/ run_align
    \/ run_genotype
    \/ run_finish
    \/ \E w \in Workers : alignSamples_lock(w)
    \/ \E w \in Workers : alignSamples_step(w)
    \/ \E w \in Workers : alignSingleSample_returns(w)
    \/ \E w \in Workers : alignSamples_relock(w)
    \/ \E w \in Workers : alignSamples_cleanup(w)
    \/ \E w \in Workers : genotypeGraphs_lock(w)
    \/ \E w \in Workers : genotypeGraphs_step(w)
    \/ \E w \in Workers : countAndGenotype_returns(w)
    \/ \E w \in Workers : genotypeGraphs_relock(w)
    \/ \E w \in Workers : genotypeGraphs_cleanup(w)

Spec == Init /\ [][Next]_vars

\* The driver and each worker thread are scheduled fairly, and a collaborator call that
\* has been entered eventually returns or fails.
driverThread == postProcess \/ Workflow_ctor \/ run_align \/ run_genotype \/ run_finish
alignThread(w) ==
    \/ alignSamples_lock(w)
    \/ alignSamples_step(w)
    \/ alignSingleSample_returns(w)
    \/ alignSamples_relock(w)
    \/ alignSamples_cleanup(w)
genotypeThread(w) ==
    \/ genotypeGraphs_lock(w)
    \/ genotypeGraphs_step(w)
    \/ countAndGenotype_returns(w)
    \/ genotypeGraphs_relock(w)
    \/ genotypeGraphs_cleanup(w)
FairSpec ==
    /\ Spec
    /\ WF_vars(driverThread)
    /\ \A w \in Workers : WF_vars(alignThread(w)) /\ WF_vars(genotypeThread(w))

----
\* Vocabulary of the properties

Constructed == driver \in {"constructed", "aligning", "genotyping", "done"}
Pool == 1..threads
AlignJoined ==
    \/ driver \in {"genotyping", "done"}
    \/ driver = "aligning" /\ \A w \in Pool : apc[w] = "done"
AlignerInFlight(w) == apc[w] \in {"call", "relock", "cleanup"}
GenotyperInFlight(w) == gpc[w] \in {"call", "relock", "cleanup"}
NeedsAlignment(s) == manifest_[s] = "null"
Pairs == (1..NumSamples) \X (0..(NumGraphs - 1))
IsRecord(x) == x.kind = "record"
Records == SelectSeq(fos, IsRecord)
Separators == SelectSeq(fos, LAMBDA x : x.kind = ",")

----
\* C1: in a run without collaborator failure every (sample, graph) pair whose
\* sample has no pre-computed alignment is handed to the aligner exactly once:
\* never twice at any time, and once each by the time the alignment pool has joined.
C1_AlignedExactlyOnce ==
    Constructed =>
        /\ \A p \in Pairs : alignCalls[p] <= 1
        /\ \A v, w \in Pool :
              (v # w /\ apc[v] = "call" /\ apc[w] = "call") => <<ai[v], ag[v]>> # <<ai[w], ag[w]>>
        /\ (AlignJoined /\ failures = 0) =>
              \A p \in Pairs : NeedsAlignment(p[1]) => alignCalls[p] = 1

C1_Witness ==
    /\ AlignJoined
    /\ driver = "aligning"
    /\ failures = 0
    /\ threads >= 2
    /\ NumSamples >= 2
    /\ NumGraphs >= 2
    /\ \A p \in Pairs : alignCalls[p] = 1

\* C2: phase barrier.  Once any genotyper call has been invoked, every alignment
\* worker has returned (so no aligner call is in flight or still to come), and the
\* row each genotyper call was handed holds no sample still waiting for alignment.
C2_PhaseBarrier ==
    Constructed =>
        /\ (\E r \in DOMAIN genoCalls : genoCalls[r] > 0) =>
              \A w \in Pool : apc[w] = "done"
        /\ \A w \in Pool : GenotyperInFlight(w) => \A v \in Pool : ~AlignerInFlight(v)
        /\ \A k \in DOMAIN readRows :
              /\ Len(readRows[k].samples) = NumSamples
              /\ \A s \in 1..NumSamples :
                    /\ readRows[k].samples[s].sample = s
                    /\ readRows[k].samples[s].data = (IF NeedsAlignment(s) THEN "aligned" ELSE "pre")

C2_Witness ==
    /\ \E w \in Pool : gpc[w] = "call"
    /\ NumGraphs >= 2
    /\ NumSamples >= 2
    /\ threads >= 2
    /\ \A p \in Pairs : alignCalls[p] = 1

\* C3: with a combined stream, no row is ever claimed by two genotyping workers
\* or genotyped twice, no record appears twice, and at the end of a failure-free
\* run the records are a permutation of the GraphIndex sequence.
C3_RecordsArePermutation ==
    Constructed =>
        /\ \A r \in DOMAIN genoCalls : genoCalls[r] <= 1
        /\ \A v, w \in Pool : (v # w /\ GenotyperInFlight(v) /\ GenotyperInFlight(w)) => gg[v] # gg[w]
        /\ outputFilePath_ # "" =>
              /\ \A j, k \in DOMAIN Records : j # k => Records[j].graph # Records[k].graph
              /\ (driver = "done" /\ failures = 0) =>
                    /\ Len(Records) = NumRows
                    /\ {Records[k].graph : k \in DOMAIN Records} = 0..(NumRows - 1)
                    /\ \A r \in DOMAIN genoCalls : genoCalls[r] = 1

C3_Witness ==
    /\ driver = "done"
    /\ failures = 0
    /\ outputFilePath_ # ""
    /\ threads >= 2
    /\ NumRows >= 2
    /\ Len(Records) = NumRows
    /\ Records[1].graph > Records[2].graph

\* C4: with one thread and no failure the records of the combined stream are
\* GraphIndex 0, 1, 2, ... in that order, all of them once the run is done.
C4_SingleThreadAscending ==
    (Constructed /\ threads = 1 /\ outputFilePath_ # "" /\ failures = 0) =>
        /\ \A k \in DOMAIN Records : Records[k].graph = k - 1
        /\ driver = "done" => Len(Records) = NumRows

C4_Witness ==
    /\ driver = "done"
    /\ threads = 1
    /\ failures = 0
    /\ outputFilePath_ # ""
    /\ NumRows >= 2
    /\ Len(Records) = NumRows

\* C5: the genotyper is never invoked for a graph that has a (sample, graph) pair
\* needing alignment whose alignment did not complete.
C5_NoGenotypingOfUnalignedGraph ==
    Constructed =>
        \A p \in Pairs :
            (NeedsAlignment(p[1]) /\ AlignJoined /\ alignedSamples_[p[2] + 1][p[1]].data # "aligned")
                => genoCalls[p[2]] = 0

C5_Witness ==
    /\ driver = "done"
    /\ failures = 1
    /\ \E p \in Pairs : alignCalls[p] = 1 /\ alignedSamples_[p[2] + 1][p[1]].data = "null"
    /\ \E p \in Pairs : alignCalls[p] = 0 /\ unalignedSamples_[p[1]] <= p[2]
    /\ \E p \in Pairs : alignCalls[p] = 0 /\ unalignedSamples_[p[1]] > p[2]
    /\ \A r \in DOMAIN genoCalls : genoCalls[r] = 0

C8_CooperativeCancellation ==
    [][/\ everSet => (alignCalls' = alignCalls /\ genoCalls' = genoCalls)
       /\ \A w \in Pool :
             /\ apc[w] = "call" => apc'[w] \in {"call", "relock"}
             /\ gpc[w] = "call" => gpc'[w] \in {"call", "relock"}
             /\ apc[w] = "relock" => apc'[w] \in {"relock", "cleanup"}
             /\ gpc[w] = "relock" => gpc'[w] \in {"relock", "cleanup"}
             /\ apc[w] = "cleanup" => apc'[w] \in {"cleanup", "for", "done"}
             /\ gpc[w] = "cleanup" => gpc'[w] \in {"cleanup", "while", "done"}
       /\ (driver = "aligning" /\ driver' # driver) => \A w \in Pool : apc[w] = "done"
       /\ (driver = "genotyping" /\ driver' # driver) => \A w \in Pool : gpc[w] = "done"]_vars

\* the flag is set while another worker's call is in flight
C8_Witness ==
    /\ terminate_
    /\ \E v, w \in Pool : apc[v] = "done" /\ apc[w] = "call"

\* C9: a failure-free run over G >= 2 graphs with a combined stream ends with
\* "[", G records separated by G - 1 commas, "]"; the opening bracket is there
\* before any record and the closing one is written last; after the alignment
\* phase the table has G rows, each holding every manifest sample, aligned.
C9_FramedArray ==
    (Constructed /\ NumGraphs >= 2) =>
        /\ (AlignJoined /\ failures = 0) =>
              /\ NumRows = NumGraphs
              /\ \A r \in 1..NumRows :
                    /\ Len(alignedSamples_[r]) = NumSamples
                    /\ \A t \in 1..NumSamples :
                          alignedSamples_[r][t] = [sample |-> t, data |-> "aligned"]
        /\ outputFilePath_ # "" =>
              /\ Len(Records) > 0 => fos[1] = LBracket
              /\ driver # "done" => \A k \in DOMAIN fos : fos[k] # RBracket
              /\ (driver = "done" /\ failures = 0) =>
                    /\ Len(fos) = 2 * NumGraphs + 1
                    /\ fos[1] = LBracket
                    /\ fos[Len(fos)] = RBracket
                    /\ \A k \in 1..NumGraphs : IsRecord(fos[2 * k])
                    /\ \A k \in 1..(NumGraphs - 1) : fos[2 * k + 1] = Comma
                    /\ Len(Separators) = NumGraphs - 1
                    /\ {fos[2 * k].graph : k \in 1..NumGraphs} = 0..(NumGraphs - 1)

C9_Witness ==
    /\ driver = "done"
    /\ failures = 0
    /\ outputFilePath_ # ""
    /\ NumSamples = 3
    /\ NumGraphs = 2
    /\ threads = 2
    /\ Len(fos) = 5
    /\ Len(Separators) = 1

\* C10: in a single-graph run a sample with a pre-alignment payload has its graph
\* cursor at the end from construction on, is never claimed or handed to the
\* aligner, and is in row 0 when the genotyper reads it.
C10_PrealignedSkipsAlignment ==
    (Constructed /\ NumGraphs = 1) =>
        \A t \in 1..NumSamples :
            ~NeedsAlignment(t) =>
                /\ unalignedSamples_[t] = NumGraphs
                /\ alignCalls[<<t, 0>>] = 0
                /\ \A w \in Pool : AlignerInFlight(w) => ai[w] # t
                /\ alignedSamples_[1][t] = [sample |-> t, data |-> "pre"]
                /\ \A k \in DOMAIN readRows :
                      readRows[k].row = 0 /\ readRows[k].samples[t] = [sample |-> t, data |-> "pre"]

C10_Witness ==
    /\ Constructed
    /\ NumGraphs = 1
    /\ threads >= 2
    /\ \E t, u \in 1..NumSamples : ~NeedsAlignment(t) /\ NeedsAlignment(u) /\ alignCalls[<<u, 0>>] = 1
    /\ Len(readRows) = 1

\* C11: the termination flag starts unset, changes only in the cleanup of a block
\* left by a failure, and once true stays true in every later step of either
\* phase and of the driver.
C11_FlagMonotonic ==
    /\ ~terminate_
    /\ [][/\ terminate_ => terminate_'
          /\ terminate_' # terminate_ =>
                \E w \in Pool :
                    \/ apc[w] = "cleanup" /\ asyncBlockFailure(ares[w]) /\ apc'[w] = "done"
                    \/ gpc[w] = "cleanup" /\ asyncBlockFailure(gres[w]) /\ gpc'[w] = "done"]_vars

\* the flag was set in the alignment phase, cleanups without failure ran after it
\* in both phases, and it is still set at the end
C11_Witness ==
    /\ driver = "done"
    /\ terminate_
    /\ failures = 1
    /\ \E p \in Pairs : alignCalls[p] = 1 /\ alignedSamples_[p[2] + 1][p[1]].data = "null"
    /\ \E p \in Pairs : alignCalls[p] = 1 /\ alignedSamples_[p[2] + 1][p[1]].data = "aligned"
    /\ Len(alignClaims) > 2
    /\ Len(genoClaims) > 0

\* C12: a manifest that does not fit the graph specs (a pre-aligned sample with
\* several graphs, or a sample without alignment and no graph) never gets past
\* postProcess: nothing is constructed, no worker is started, no collaborator is
\* called and nothing is written.
BadCombination ==
    \/ NumGraphs > 1 /\ \E t \in 1..NumSamples : manifest_[t] # "null"
    \/ NumGraphs = 0 /\ \E t \in 1..NumSamples : manifest_[t] = "null"

C12_RejectedBeforeWork ==
    /\ BadCombination =>
          /\ driver \in {"options", "rejected"}
          /\ \A w \in Workers : apc[w] = "unborn" /\ gpc[w] = "unborn"
          /\ unalignedSamples_ = <<>> /\ alignedSamples_ = <<>>
          /\ alignCalls = <<>> /\ genoCalls = <<>> /\ readRows = <<>>
          /\ alignClaims = <<>> /\ genoClaims = <<>>
          /\ fos = <<>>
          /\ mutex_ = Free
    /\ driver = "rejected" => BadCombination /\ status # 0

C12_Witness ==
    /\ driver = "rejected"
    /\ NumGraphs > 1
    /\ \E t, u \in 1..NumSamples : manifest_[t] = "pre" /\ manifest_[u] = "null"

\* C13: a worker never holds the mutex while its aligner or genotyper call is
\* executing or while it waits to take the mutex again after the call.
C13_CallsRunUnlocked ==
    \A w \in Workers :
        /\ apc[w] \in {"call", "relock"} => ~Holds("align", w)
        /\ gpc[w] \in {"call", "relock"} => ~Holds("genotype", w)

\* two aligner calls, or two genotyper calls, are executing at the same time
C13_Witness ==
    \E v, w \in Pool :
        /\ v # w
        /\ gpc[v] = "call" /\ gpc[w] = "call"
        /\ mutex_ = Free
        /\ \A p \in Pairs : alignCalls[p] = 1

\* C14: a worker is inside the code that reads or writes the cursors, the flag,
\* the first-record flag or the stream only while it is the holder of the mutex,
\* at most one worker is there at a time, and every step of a worker that changes
\* one of them is taken by the holder, the failure path included.
InLockedCode(w) == apc[w] \in {"for", "cleanup"} \/ gpc[w] \in {"while", "cleanup"}
HolderOfLockedCode(w) ==
    \/ apc[w] \in {"for", "cleanup"} /\ Holds("align", w)
    \/ gpc[w] \in {"while", "cleanup"} /\ Holds("genotype", w)
shared == <<unalignedSamples_, ungenotypedSamples, terminate_, firstPrinted_, fos>>

C14_SharedStateUnderMutex ==
    /\ [](\A w \in Workers : InLockedCode(w) => HolderOfLockedCode(w))
    /\ [](Cardinality({w \in Workers : InLockedCode(w)}) <= 1)
    /\ [][(shared' # shared /\ driver' = driver /\ driver \in {"aligning", "genotyping"}) =>
             \E w \in Pool :
                 /\ HolderOfLockedCode(w)
                 /\ \A v \in Pool \ {w} : apc'[v] = apc[v] /\ gpc'[v] = gpc[v]
                 /\ apc'[w] # apc[w] \/ gpc'[w] # gpc[w] \/ ai'[w] # ai[w]]_vars

\* a failed worker is about to set the flag, holding the mutex another worker waits for
C14_Witness ==
    \E v, w \in Pool :
        /\ apc[w] = "cleanup" /\ asyncBlockFailure(ares[w]) /\ Holds("align", w)
        /\ apc[v] = "relock"

\* C15: claims are strictly sequential in each phase: the k-th genotyping claim
\* is GraphIndex k - 1, alignment pairs are claimed in lexicographic (sample
\* position, GraphIndex) order, and a cursor moves only forward, by one per claim.
LexLess(p, q) == p[1] < q[1] \/ (p[1] = q[1] /\ p[2] < q[2])
GenotypingClaimsSequential == \A k \in DOMAIN genoClaims : genoClaims[k] = k - 1
AlignmentClaimsLexicographic ==
    \A j, k \in DOMAIN alignClaims : j < k => LexLess(alignClaims[j], alignClaims[k])
ClaimsMade == Len(alignClaims) + Len(genoClaims)
CursorsAdvanceByOne ==
    [][(driver = "aligning" \/ driver = "genotyping") =>
          /\ \A t \in DOMAIN unalignedSamples_ :
                unalignedSamples_'[t] \in {unalignedSamples_[t], unalignedSamples_[t] + 1}
          /\ ungenotypedSamples' \in {ungenotypedSamples, ungenotypedSamples + 1}
          /\ (unalignedSamples_' # unalignedSamples_ \/ ungenotypedSamples' # ungenotypedSamples)
                => ClaimsMade' = ClaimsMade + 1
          /\ (unalignedSamples_' = unalignedSamples_ /\ ungenotypedSamples' = ungenotypedSamples)
                => ClaimsMade' = ClaimsMade]_vars

C15_ClaimsSequential ==
    /\ []GenotypingClaimsSequential
    /\ []AlignmentClaimsLexicographic
    /\ CursorsAdvanceByOne

\* C16: the records of the combined stream are in the order in which the workers
\* appended them after their genotyper calls: each record belongs to a row that
\* was claimed, genotyped once and is no longer in flight, and a record of a
\* higher GraphIndex stands before one of a lower GraphIndex only when more than
\* one worker runs; with two workers such an order is reached.
C16_OrderIsCompletionOrder ==
    (Constructed /\ outputFilePath_ # "") =>
        /\ \A k \in DOMAIN Records :
              /\ genoCalls[Records[k].graph] = 1
              /\ \E c \in DOMAIN genoClaims : genoClaims[c] = Records[k].graph
              /\ \A w \in Pool : GenotyperInFlight(w) => graphIndexOf(gg[w]) # Records[k].graph
        /\ \A j, k \in DOMAIN Records :
              (j < k /\ Records[j].graph > Records[k].graph) => threads >= 2

\* rows 0 and 1 were claimed in that order and their records appended in the other
C16_Witness ==
    /\ driver = "genotyping"
    /\ failures = 0
    /\ outputFilePath_ # ""
    /\ threads >= 2
    /\ genoClaims = <<0, 1>>
    /\ Len(Records) = 2
    /\ Records[1].graph = 1
    /\ Records[2].graph = 0

\* C17: under fair scheduling, with every collaborator call returning or failing,
\* every worker of both pools returns and the run completes, with or without
\* failures; a worker that has returned (also after a failure) does not hold the
\* mutex, and whenever a worker waits for the mutex it is free or held by a worker
\* that is running locked code and will release it.
WaitsForMutex(w) ==
    \/ driver = "aligning" /\ apc[w] \in {"start", "relock"}
    \/ driver = "genotyping" /\ gpc[w] \in {"start", "relock"}
MutexWillBeReleased ==
    \/ mutex_ = Free
    \/ \E w \in Pool : Holds("align", w) /\ apc[w] \in {"for", "cleanup"}
    \/ \E w \in Pool : Holds("genotype", w) /\ gpc[w] \in {"while", "cleanup"}
ReturnedWorkersHoldNothing ==
    \A w \in Workers :
        /\ apc[w] \in {"unborn", "done"} => ~Holds("align", w)
        /\ gpc[w] \in {"unborn", "done"} => ~Holds("genotype", w)
RunCompleted ==
    /\ driver = "done"
    /\ \A w \in Pool : apc[w] = "done" /\ gpc[w] = "done"
    /\ mutex_ = Free
C17_TerminationAndDeadlockFreedom ==
    /\ []ReturnedWorkersHoldNothing
    /\ []((\E w \in Pool : WaitsForMutex(w)) => MutexWillBeReleased)
    /\ (driver = "constructed") ~> RunCompleted

\* the run completed although an aligner call and a genotyper call failed and a
\* worker had to wait for the mutex held by another
C17_Witness ==
    /\ RunCompleted
    /\ threads >= 2
    /\ terminate_
    /\ failures >= 2
    /\ \E p \in Pairs : alignCalls[p] = 1
    /\ \E r \in 0..(NumRows - 1) : genoCalls[r] = 1

\* C18: "[" and "]" are written exactly when a combined stream is configured and
\* there is more than one graph spec: "[" first, before the pools run, and "]"
\* last, after them; with zero or one graph spec the stream has no bracket and no
\* comma and, after a failure-free run, holds the single record. In every state,
\* for every thread count, the separators number max(0, records - 1), and between
\* the brackets records and separators alternate, beginning and ending with a
\* record: each record but the first written has a separator right before it and
\* no separator follows the last.
Framed == outputFilePath_ # "" /\ NumGraphs > 1
IsBracket(x) == x.kind \in {"[", "]"}
Body == SelectSeq(fos, LAMBDA x : ~IsBracket(x))
C18_FramingAndSeparators ==
    Constructed =>
        /\ outputFilePath_ = "" => fos = <<>>
        /\ driver = "constructed" => fos = <<>>
        /\ (Framed /\ driver # "constructed") => (Len(fos) >= 1 /\ fos[1] = LBracket)
        /\ (Framed /\ driver = "done") => (Len(fos) >= 2 /\ fos[Len(fos)] = RBracket)
        /\ \A k \in DOMAIN fos :
              /\ fos[k] = LBracket => (Framed /\ k = 1)
              /\ fos[k] = RBracket => (Framed /\ driver = "done" /\ k = Len(fos))
        /\ Len(Separators) = Max(0, Len(Records) - 1)
        /\ \A k \in DOMAIN Body :
              IF k % 2 = 1 THEN IsRecord(Body[k]) ELSE Body[k] = Comma
        /\ Len(Body) > 0 => IsRecord(Body[Len(Body)])
        /\ NumGraphs <= 1 =>
              /\ Len(Records) <= 1
              /\ Separators = <<>>
              /\ (outputFilePath_ # "" /\ driver = "done" /\ failures = 0) => fos = <<Record(0)>>

\* three workers, the second pool still running: two records and the one separator
\* between them follow the opening bracket, the closing one is not yet written
C18_Witness ==
    /\ driver = "genotyping"
    /\ threads = 3
    /\ Framed
    /\ \E w \in Pool : gpc[w] = "start"
    /\ Len(fos) = 4
    /\ fos[1] = LBracket
    /\ IsRecord(fos[2])
    /\ fos[3] = Comma
    /\ IsRecord(fos[4])

\* C19: while the second pool runs, the combined stream and the first-record flag
\* change only when a worker that holds the mutex, whose genotyper call on the row
\* it claimed has returned successfully, appends the record of that row (after a
\* separator if a record was written before); the step of a worker whose call
\* failed, and the step of a worker that leaves on finding the flag set after its
\* claim, change neither the stream nor the flag. Hence the flag is set exactly
\* when a record has been written, and every record is of a row genotyped once.
AppendsOwnRecord(w) ==
    /\ gpc[w] = "cleanup"
    /\ gres[w] = "ok"
    /\ Holds("genotype", w)
    /\ genoCalls[gg[w]] = 1
    /\ \E c \in DOMAIN genoClaims : genoClaims[c] = graphIndexOf(gg[w])
    /\ fos' = fos \o (IF firstPrinted_ THEN <<Comma>> ELSE <<>>) \o <<Record(graphIndexOf(gg[w]))>>
    /\ firstPrinted_'
    /\ gpc'[w] = "while"
LeavesWithoutResult(w) ==
    \/ gpc[w] = "cleanup" /\ gres[w] = "fail" /\ gpc'[w] = "done"
    \/ gpc[w] = "while" /\ gpc'[w] = "done"
C19_RecordsFromSuccessfulCalls ==
    /\ [](Constructed =>
            /\ firstPrinted_ <=> Len(Records) > 0
            /\ \A k \in DOMAIN Records : genoCalls[Records[k].graph] = 1)
    /\ [][driver = "genotyping" /\ driver' = "genotyping" =>
            /\ <<fos, firstPrinted_>>' # <<fos, firstPrinted_>> =>
                  \E w \in Pool : AppendsOwnRecord(w)
            /\ \A w \in Pool :
                  LeavesWithoutResult(w) => <<fos, firstPrinted_>>' = <<fos, firstPrinted_>>]_vars

\* of two genotyper calls, one failed and one succeeded: the stream has the one record
C19_Witness ==
    /\ driver = "done"
    /\ outputFilePath_ # ""
    /\ threads >= 2
    /\ NumGraphs = 2
    /\ failures = 1
    /\ genoCalls[0] = 1
    /\ genoCalls[1] = 1
    /\ Len(Records) = 1
    /\ Separators = <<>>
    /\ firstPrinted_

\* C20: without a graph spec the table has exactly one row, holding every manifest
\* sample with its pre-alignment payload; no pair is claimed and no aligner call is
\* made, whatever the thread count; the genotyper is entered at most once, on row
\* 0 with the empty graph-spec path (path 0) and that row, and exactly once by the time the
\* run is over; a failure-free run leaves exactly one record, of row 0, in the
\* combined stream.
C20_NoGraphSpec ==
    (Constructed /\ NumGraphs = 0) =>
        /\ NumRows = 1
        /\ alignedSamples_[1] = [t \in 1..NumSamples |-> [sample |-> t, data |-> "pre"]]
        /\ alignClaims = <<>>
        /\ DOMAIN alignCalls = {}
        /\ \A w \in Workers : ~AlignerInFlight(w)
        /\ \A t \in 1..NumSamples : unalignedSamples_[t] = 0
        /\ Len(readRows) <= 1
        /\ \A k \in DOMAIN readRows :
              readRows[k] = [row |-> 0, path |-> 0, samples |-> alignedSamples_[1]]
        /\ genoCalls[0] = Len(readRows)
        /\ Len(Records) <= 1
        /\ driver = "done" =>
              /\ genoCalls[0] = 1
              /\ genoClaims = <<0>>
              /\ (outputFilePath_ # "" /\ failures = 0) => fos = <<Record(0)>>

\* three workers, two pre-aligned samples, no graph spec: the run is over with the
\* one genotyper call made and its record in the stream
C20_Witness ==
    /\ driver = "done"
    /\ NumGraphs = 0
    /\ NumSamples = 2
    /\ threads = 3
    /\ \A w \in Pool : apc[w] = "done" /\ gpc[w] = "done"
    /\ Len(readRows) = 1
    /\ readRows[1].path = 0
    /\ fos = <<Record(0)>>

====
